---- MODULE Spec2Model ----
(***************************************************************************)
(* A model of the BMS log analysis scripts: analyze_excel.py,              *)
(* analyze_system_state.py, analyze_relay3_close.py and                    *)
(* analyze_bms_files.py.                                                   *)
(*                                                                         *)
(* Text is modelled as a sequence of characters (one-character strings; a  *)
(* non-ASCII character is the token "U+XXXX"), so that str.lower(), the    *)
(* substring test `in`, str.startswith() and encode('ascii','replace')     *)
(* are computed character by character as Python computes them.            *)
(* Numbers of the Current(A) column are fixed-point, in units of 0.001.    *)
(***************************************************************************)
EXTENDS Integers, Sequences, FiniteSets, TLC

VARIABLES
    df,             \* the DataFrame read from the sheet: [columns, rows]
    keyword,        \* the keyword of the column selection under study
    sel,            \* the last column selection made: [by, keyword, cols]
    pred,           \* the row filter under study: [column, value]
    filtered,       \* df[df[c] == v]
    refiltered,     \* the filter applied to its own result
    pc,             \* position of a script run
    out,            \* lines written so far (to stdout or to the output file)
    relay3_close,   \* analyze_relay3_close.py: the filtered DataFrame
    run,            \* analyze_system_state.py: two runs on the same sheet
    files,          \* analyze_bms_files.py: the workbook behind each path
    idx,            \* analyze_bms_files.py: index of the file being analysed
    handles         \* analyze_bms_files.py: the file handles now open

vars == <<df, keyword, sel, pred, filtered, refiltered, pc, out,
          relay3_close, run, files, idx, handles>>

Unused == "unused"

(***************************************************************************)
(* Bounds of the model.                                                    *)
(***************************************************************************)
MaxCols == 2
MaxRows == 3
MaxStatRows == 3
SheetRows == 22

(***************************************************************************)
(* Text.                                                                   *)
(***************************************************************************)
UpperCase == <<"A","B","C","D","E","F","G","H","I","J","K","L","M",
               "N","O","P","Q","R","S","T","U","V","W","X","Y","Z">>
LowerCase == <<"a","b","c","d","e","f","g","h","i","j","k","l","m",
               "n","o","p","q","r","s","t","u","v","w","x","y","z">>
NonAscii == {"U+FF08", "U+FF09"}

lower_ch(ch) ==
    IF \E i \in DOMAIN UpperCase : UpperCase[i] = ch
    THEN LowerCase[CHOOSE i \in DOMAIN UpperCase : UpperCase[i] = ch]
    ELSE ch

\* str.lower()
lower(s) == [i \in DOMAIN s |-> lower_ch(s[i])]

\* sub in s
contains(sub, s) ==
    \E i \in 0..(Len(s) - Len(sub)) : SubSeq(s, i + 1, i + Len(sub)) = sub

\* s.startswith(prefix)
startswith(s, prefix) ==
    /\ Len(prefix) <= Len(s)
    /\ SubSeq(s, 1, Len(prefix)) = prefix

\* col.encode('ascii', 'replace').decode('ascii')
ascii_safe(s) == [i \in DOMAIN s |-> IF s[i] \in NonAscii THEN "?" ELSE s[i]]

Range(s) == {s[i] : i \in DOMAIN s}

\* All sequences of at most n distinct elements of S.
DistinctSeqs(S, n) ==
    UNION {{s \in [1..k -> S] : \A i, j \in 1..k : i # j => s[i] # s[j]} : k \in 0..n}

(***************************************************************************)
(* String literals of the scripts.                                         *)
(***************************************************************************)
kw_Relay == <<"R", "e", "l", "a", "y">>
kw_relay == <<"r", "e", "l", "a", "y">>
s_Relay3 == <<"R", "e", "l", "a", "y", "3">>
s_Relay_3 == <<"R", "e", "l", "a", "y", " ", "3">>
s_Relay_sp == <<"R", "e", "l", "a", "y", " ">>
s_times == <<"t", "i", "m", "e", "s">>
s_voltage == <<"v", "o", "l", "t", "a", "g", "e">>
s_fault == <<"f", "a", "u", "l", "t">>
s_error == <<"e", "r", "r", "o", "r">>
s_Close == <<"C", "l", "o", "s", "e">>
s_CLOSED == <<"C", "L", "O", "S", "E", "D">>
s_Time == <<"T", "i", "m", "e">>
s_System_state == <<"S", "y", "s", "t", "e", "m", " ", "s", "t", "a", "t", "e">>
s_Current_A == <<"C", "u", "r", "r", "e", "n", "t", "(", "A", ")">>
s_Shown_SOC == <<"S", "h", "o", "w", "n", " ", "S", "O", "C", "U+FF08", "%", "U+FF09">>
s_Real_SOC == <<"R", "e", "a", "l", " ", "S", "O", "C", "U+FF08", "%", "U+FF09">>
s_SOH == <<"S", "O", "H", "U+FF08", "%", "U+FF09">>
s_Power_volt == <<"P", "o", "w", "e", "r", " ", "v", "o", "l", "t">>
s_Acc_voltage == <<"A", "c", "c", ".", " ", "v", "o", "l", "t", "a", "g", "e", "(", "V", ")">>
s_HVBPOS == <<"H", "V", "B", "P", "O", "S", "(", "V", ")">>
k_balanc == <<"b", "a", "l", "a", "n", "c">>
k_heat == <<"h", "e", "a", "t">>
k_cool == <<"c", "o", "o", "l">>
k_alarm == <<"a", "l", "a", "r", "m">>
k_status == <<"s", "t", "a", "t", "u", "s">>
k_charge == <<"c", "h", "a", "r", "g", "e">>
k_discharge == <<"d", "i", "s", "c", "h", "a", "r", "g", "e">>

(***************************************************************************)
(* Column names and keywords the sheets and the callers may supply.        *)
(***************************************************************************)
n_RELAY_3 == <<"R", "E", "L", "A", "Y", " ", "3">>
n_relay_state == <<"r", "e", "l", "a", "y", " ", "s", "t", "a", "t", "e">>
n_Relay_1 == <<"R", "e", "l", "a", "y", " ", "1">>
n_Relay_1_times == <<"R", "e", "l", "a", "y", " ", "1", " ", "t", "i", "m", "e", "s">>
n_Heating == <<"H", "e", "a", "t", "i", "n", "g">>
n_Fault_level == <<"F", "a", "u", "l", "t", " ", "l", "e", "v", "e", "l">>
n_Charge_status == <<"C", "h", "a", "r", "g", "e", " ", "s", "t", "a", "t", "u", "s">>
n_Discharge == <<"D", "i", "s", "c", "h", "a", "r", "g", "e">>
n_Cool_pct == <<"C", "o", "o", "l", "U+FF08", "%", "U+FF09">>
i_RELAY == <<"R", "E", "L", "A", "Y">>
i_Heat == <<"H", "e", "a", "t">>
s_Open == <<"O", "p", "e", "n">>
s_Closed == <<"C", "l", "o", "s", "e", "d">>
s_close == <<"c", "l", "o", "s", "e">>
s_Standby == <<"S", "t", "a", "n", "d", "b", "y">>

KeywordColumnNames ==
    {s_Relay_3, s_Relay3, n_RELAY_3, n_relay_state, s_Time, n_Heating,
     n_Charge_status, s_Shown_SOC}

KeywordInputs == {kw_Relay, kw_relay, i_RELAY, k_heat, i_Heat, k_status, k_cool}

(***************************************************************************)
(* Keyword column selection.                                               *)
(***************************************************************************)
Reverse(s) == [i \in DOMAIN s |-> s[Len(s) + 1 - i]]

\* The selection with the matches taken in reverse column order.
matching_cols_reversed(columns, kw) ==
    Reverse(SelectSeq(columns, LAMBDA col : contains(lower(kw), lower(col))))

\* [col for col in df.columns if keyword.lower() in col.lower()]
matching_cols(columns, kw) ==
    SelectSeq(columns, LAMBDA col : contains(lower(kw), lower(col)))

\* analyze_system_state.py: [col for col in df.columns if 'Relay' in col]
relay_cols_system_state(columns) ==
    SelectSeq(columns, LAMBDA col : contains(kw_Relay, col))

\* analyze_bms_files.py: [col for col in df.columns if 'relay' in str(col).lower()]
relay_cols_bms(columns) ==
    SelectSeq(columns, LAMBDA col : contains(kw_relay, lower(col)))

\* analyze_excel.py: [col ... if 'relay' in col.lower() or 'Relay' in col]
relay_cols_excel(columns) ==
    SelectSeq(columns,
              LAMBDA col : contains(kw_relay, lower(col)) \/ contains(kw_Relay, col))

NoSelection == [by |-> "none", keyword |-> <<>>, cols |-> <<>>]

InitKeyword ==
    /\ df \in {[columns |-> c, rows |-> <<>>] :
                 c \in DistinctSeqs(KeywordColumnNames, MaxCols)}
    /\ keyword \in KeywordInputs
    /\ sel = NoSelection
    /\ pred = Unused /\ filtered = Unused /\ refiltered = Unused
    /\ pc = Unused /\ out = Unused /\ relay3_close = Unused
    /\ run = Unused /\ files = Unused /\ idx = Unused /\ handles = Unused

notKeywordVars ==
    <<df, keyword, pred, filtered, refiltered, pc, out, relay3_close, run,
      files, idx, handles>>

MatchingCols ==
    /\ sel.by = "none"
    /\ sel' = [by |-> "matching_cols", keyword |-> keyword,
               cols |-> matching_cols(df.columns, keyword)]
    /\ UNCHANGED notKeywordVars

RelayColsSystemState ==
    /\ sel.by = "none"
    /\ sel' = [by |-> "relay_cols_system_state", keyword |-> kw_Relay,
               cols |-> relay_cols_system_state(df.columns)]
    /\ UNCHANGED notKeywordVars

RelayColsBms ==
    /\ sel.by = "none"
    /\ sel' = [by |-> "relay_cols_bms", keyword |-> kw_relay,
               cols |-> relay_cols_bms(df.columns)]
    /\ UNCHANGED notKeywordVars

RelayColsExcel ==
    /\ sel.by = "none"
    /\ sel' = [by |-> "relay_cols_excel", keyword |-> kw_relay,
               cols |-> relay_cols_excel(df.columns)]
    /\ UNCHANGED notKeywordVars

NextKeyword == MatchingCols \/ RelayColsSystemState \/ RelayColsBms \/ RelayColsExcel

SpecKeyword == InitKeyword /\ [][NextKeyword]_vars

(***************************************************************************)
(* Claims about the keyword column selection.                              *)
(***************************************************************************)
\* K occurs in name when both are compared without regard to case.
FoldedOccurs(K, name) ==
    \E off \in 0..(Len(name) - Len(K)) :
        \A j \in 1..Len(K) : lower_ch(K[j]) = lower_ch(name[off + j])

PositionIn(columns, name) == CHOOSE i \in DOMAIN columns : columns[i] = name

\* res holds exactly the names of columns that contain K case-insensitively,
\* in the order of columns.
IsFoldedSelection(res, columns, K) ==
    /\ \A i \in DOMAIN res : res[i] \in Range(columns) /\ FoldedOccurs(K, res[i])
    /\ \A name \in Range(columns) : FoldedOccurs(K, name) => name \in Range(res)
    /\ \A i, j \in DOMAIN res :
          i < j => PositionIn(columns, res[i]) < PositionIn(columns, res[j])

\* C1: every keyword column selection of the scripts returns exactly the
\* column names that contain the keyword case-insensitively, in column order
\* (the empty sequence when none matches).
C1_FindByKeyword ==
    sel.by # "none" => IsFoldedSelection(sel.cols, df.columns, sel.keyword)

(***************************************************************************)
(* Row filter: df[df[c] == v].                                             *)
(***************************************************************************)
\* An empty cell, read by pandas as NaN.
NaN == <<"nan">>

\* Elementwise ==: NaN equals nothing, not even NaN.
cell_eq(cell, v) == cell # NaN /\ v # NaN /\ cell = v

\* Boolean indexing rows[mask]: the rows whose mask entry is True, in order.
bool_index(rows, mask) ==
    LET kept == SelectSeq([i \in 1..Len(rows) |-> i], LAMBDA i : mask[i])
    IN  [k \in DOMAIN kept |-> rows[kept[k]]]

\* A misaligned mask: entry i tells whether row i - 1 matched.
filterRows_shifted(d, c, v) ==
    [columns |-> d.columns,
     rows |-> bool_index(d.rows,
                  [i \in DOMAIN d.rows |-> i > 1 /\ cell_eq(d.rows[i - 1][c], v)])]

\* A mask that compares without regard to case.
filterRows_folded(d, c, v) ==
    [columns |-> d.columns,
     rows |-> bool_index(d.rows,
                  [i \in DOMAIN d.rows |->
                      d.rows[i][c] # NaN /\ lower(d.rows[i][c]) = lower(v)])]

\* df[df[c] == v], for a column c of df.
filterRows(d, c, v) ==
    [columns |-> d.columns,
     rows |-> bool_index(d.rows, [i \in DOMAIN d.rows |-> cell_eq(d.rows[i][c], v)])]

FilterValues == {s_Close, s_CLOSED, s_close, s_Closed, s_Open}
FilterColumns == {s_Relay_3, s_Relay3}

\* A sheet with the columns Time, c and Current(A); Time numbers the rows.
FilterSheet(c, cells) ==
    [columns |-> <<s_Time, c, s_Current_A>>,
     rows |-> [i \in DOMAIN cells |->
                 [n \in {s_Time, c, s_Current_A} |->
                     IF n = s_Time THEN i
                     ELSE IF n = c THEN cells[i] ELSE 1000 * i]]]

NoTable == [columns |-> <<>>, rows |-> <<>>]

InitFilter ==
    /\ \E c \in FilterColumns, v \in FilterValues :
         /\ pred = [column |-> c, value |-> v]
         /\ df \in {FilterSheet(c, cells) :
                      cells \in UNION {[1..n -> FilterValues \cup {NaN}] : n \in 0..MaxRows}}
    /\ pc = "loaded"
    /\ filtered = NoTable /\ refiltered = NoTable
    /\ keyword = Unused /\ sel = Unused
    /\ out = Unused /\ relay3_close = Unused
    /\ run = Unused /\ files = Unused /\ idx = Unused /\ handles = Unused

notFilterVars ==
    <<df, keyword, sel, pred, out, relay3_close, run, files, idx, handles>>

FilterRows ==
    /\ pc = "loaded"
    /\ filtered' = filterRows(df, pred.column, pred.value)
    /\ pc' = "filtered"
    /\ UNCHANGED <<refiltered, notFilterVars>>

FilterAgain ==
    /\ pc = "filtered"
    /\ refiltered' = filterRows(filtered, pred.column, pred.value)
    /\ pc' = "refiltered"
    /\ UNCHANGED <<filtered, notFilterVars>>

NextFilter == FilterRows \/ FilterAgain

SpecFilter == InitFilter /\ [][NextFilter]_vars

(***************************************************************************)
(* Claims about the row filter.                                            *)
(***************************************************************************)
\* C2: the filter returns exactly the rows whose cell in the column equals the
\* value (no case folding, no substring match), in their original order, with
\* every column kept; with no matching row the result is a table of zero rows.
C2_FilterExact ==
    pc \in {"filtered", "refiltered"} =>
        /\ filtered.columns = df.columns
        /\ \A k \in DOMAIN filtered.rows :
              \E i \in DOMAIN df.rows :
                  /\ filtered.rows[k] = df.rows[i]
                  /\ df.rows[i][pred.column] = pred.value
        /\ \A i \in DOMAIN df.rows :
              df.rows[i][pred.column] = pred.value =>
                  \E k \in DOMAIN filtered.rows : filtered.rows[k] = df.rows[i]
        /\ \A k, l \in DOMAIN filtered.rows :
              k < l => filtered.rows[k][s_Time] < filtered.rows[l][s_Time]

\* A filter for 'Close' that kept one of three rows and left out a row that
\* differs only by case or only by a suffix.
C2_Witness ==
    /\ pc = "filtered"
    /\ pred.value = s_Close
    /\ Len(df.rows) = 3
    /\ Len(filtered.rows) = 1
    /\ \E i \in DOMAIN df.rows : df.rows[i][pred.column] \in {s_close, s_Closed, s_CLOSED}

\* C10: filtering the result of a filter again by the same column and value
\* returns the same table.
C10_FilterIdempotent ==
    pc = "refiltered" => refiltered = filtered

\* A second filter applied to a result that kept some rows and dropped others.
C10_Witness ==
    /\ pc = "refiltered"
    /\ Len(filtered.rows) >= 2
    /\ Len(filtered.rows) < Len(df.rows)

(***************************************************************************)
(* Series of numbers: min(), max(), mean() and the format {:.2f}.          *)
(* A numeric cell is [nan, x]: x counts thousandths.                       *)
(***************************************************************************)
Num(x) == [nan |-> FALSE, x |-> x]
NumNaN == [nan |-> TRUE, x |-> 0]

\* df[c]: the cells of column c, row by row.
column(d, c) == [i \in DOMAIN d.rows |-> d.rows[i][c]]

\* The non-missing cells (min, max and mean skip NaN).
dropna(series) == SelectSeq(series, LAMBDA cell : ~cell.nan)

RECURSIVE series_sum(_)
series_sum(series) ==
    IF series = <<>> THEN 0 ELSE Head(series).x + series_sum(Tail(series))

\* Series.min(): NaN when no cell is left.
series_min(series) ==
    LET v == dropna(series)
    IN  IF v = <<>> THEN NumNaN
        ELSE Num(CHOOSE m \in {v[i].x : i \in DOMAIN v} : \A j \in DOMAIN v : m <= v[j].x)

\* Series.max(): NaN when no cell is left.
series_max(series) ==
    LET v == dropna(series)
    IN  IF v = <<>> THEN NumNaN
        ELSE Num(CHOOSE m \in {v[i].x : i \in DOMAIN v} : \A j \in DOMAIN v : m >= v[j].x)

\* A mean that divides by the number of rows, missing or not.
series_mean_all_rows(series) ==
    LET v == dropna(series)
    IN  IF v = <<>> THEN [nan |-> TRUE, num |-> 0, den |-> 1]
        ELSE [nan |-> FALSE, num |-> series_sum(v), den |-> Len(series)]

\* Series.mean(): the sum of the non-missing cells over their count, as the
\* fraction num/den; NaN when no cell is left.
series_mean(series) ==
    LET v == dropna(series)
    IN  IF v = <<>> THEN [nan |-> TRUE, num |-> 0, den |-> 1]
        ELSE [nan |-> FALSE, num |-> series_sum(v), den |-> Len(v)]

\* f"{mean:.2f}": the hundredths nearest to the mean (which of the two, at a
\* tie of the decimal value, depends on the binary float: both are possible).
format_2f(mean) ==
    IF mean.nan THEN {[nan |-> TRUE, hundredths |-> 0]}
    ELSE LET q == mean.num \div (10 * mean.den)
         IN  {[nan |-> FALSE, hundredths |-> h] : h \in
                {g \in (q - 1)..(q + 1) :
                    /\ 10 * mean.den * g - mean.num <= 5 * mean.den
                    /\ mean.num - 10 * mean.den * g <= 5 * mean.den}}

\* Series.value_counts(): the count of each non-missing value.
value_counts(series) ==
    [v \in Range(series) \ {NaN} |-> Cardinality({i \in DOMAIN series : series[i] = v})]

(***************************************************************************)
(* analyze_relay3_close.py.                                                *)
(***************************************************************************)
important_cols ==
    <<s_Time, s_System_state, s_Current_A, s_Shown_SOC, s_Real_SOC, s_SOH,
      s_Power_volt, s_Acc_voltage, s_HVBPOS>>

\* Columns a 'System state 0x93' sheet may hold, in sheet order.
SheetColumns ==
    <<s_Time, n_Relay_1, n_Relay_1_times, s_Relay_3, s_System_state, s_Current_A,
      n_Fault_level>>
OptionalColumns == {s_Time, s_Relay_3, s_System_state, s_Current_A}
CurrentValues == {-3200, 5, 12500}

SheetRow(cols, i, relay3, current) ==
    [n \in Range(cols) |->
        CASE n = s_Time -> i
          [] n = s_Relay_3 -> relay3
          [] n = s_Current_A -> current
          [] n = s_System_state -> s_Standby
          [] n = n_Relay_1 -> s_Open
          [] OTHER -> 0]

SystemStateSheets ==
    {[columns |-> cols,
      rows |-> [i \in DOMAIN cells |-> SheetRow(cols, i, cells[i][1], cells[i][2])]] :
        cols \in {SelectSeq(SheetColumns, LAMBDA n : n \notin absent) :
                    absent \in SUBSET OptionalColumns},
        cells \in UNION {[1..n -> {s_Close, s_Open}
                                  \X ({Num(x) : x \in CurrentValues} \cup {NumNaN})] :
                           n \in 0..MaxStatRows}}

InitRelay3Close ==
    /\ df \in SystemStateSheets
    /\ pc = "read"
    /\ out = <<>>
    /\ relay3_close = NoTable
    /\ keyword = Unused /\ sel = Unused /\ pred = Unused
    /\ filtered = Unused /\ refiltered = Unused
    /\ run = Unused /\ files = Unused /\ idx = Unused /\ handles = Unused

notRelay3CloseVars ==
    <<df, keyword, sel, pred, filtered, refiltered, run, files, idx, handles>>

\* An uncaught KeyError: the traceback is written and the script ends.
KeyError(before, c) ==
    /\ out' = out \o before \o <<[line |-> "KeyError", col |-> c]>>
    /\ pc' = "aborted"

has_column(d, c) == c \in Range(d.columns)

\* relay3_close.iloc[0]
first_row == relay3_close.rows[1]

\* [col ... if col.startswith('Relay ') and not 'times' in col.lower()
\*                                       and not 'voltage' in col.lower()]
relay_cols_relay3_close(columns) ==
    SelectSeq(columns,
              LAMBDA col : /\ startswith(col, s_Relay_sp)
                           /\ ~contains(s_times, lower(col))
                           /\ ~contains(s_voltage, lower(col)))

\* [col ... if 'fault' in col.lower() or 'error' in col.lower()]
fault_cols(columns) ==
    SelectSeq(columns,
              LAMBDA col : contains(s_fault, lower(col)) \/ contains(s_error, lower(col)))

\* lines 10-15
ReadSheet ==
    /\ pc = "read"
    /\ out' = Append(out, [line |-> "RELAY 3 'Close' ANALYSIS"])
    /\ pc' = "search"
    /\ UNCHANGED <<relay3_close, notRelay3CloseVars>>

\* lines 17-22
SearchRelay3 ==
    /\ pc = "search"
    /\ IF has_column(df, s_Relay_3)
       THEN LET found == filterRows(df, s_Relay_3, s_Close)
            IN  /\ relay3_close' = found
                /\ out' = out \o <<[line |-> "Searching"],
                                     [line |-> "Found", n |-> Len(found.rows)]>>
                /\ pc' = IF Len(found.rows) > 0 THEN "first_row" ELSE "peak"
       ELSE KeyError(<<[line |-> "Searching"]>>, s_Relay_3) /\ UNCHANGED relay3_close
    /\ UNCHANGED notRelay3CloseVars

\* lines 23-35
FirstRow ==
    /\ pc = "first_row"
    /\ LET cols == relay_cols_relay3_close(df.columns)
       IN  out' = out \o <<[line |-> "FIRST ROW WHERE RELAY 3 IS CLOSE"]>>
                      \o [k \in DOMAIN cols |->
                            [line |-> "RelayState", col |-> cols[k],
                             val |-> first_row[cols[k]]]]
    /\ pc' = "important"
    /\ UNCHANGED <<relay3_close, notRelay3CloseVars>>

\* lines 37-46
ImportantCols ==
    /\ pc = "important"
    /\ LET cols == SelectSeq(important_cols, LAMBDA col : has_column(df, col))
       IN  out' = out \o <<[line |-> "IMPORTANT SYSTEM DATA IN THIS ROW"]>>
                      \o [k \in DOMAIN cols |->
                            [line |-> "Important", col |-> cols[k],
                             val |-> first_row[cols[k]]]]
    /\ pc' = "faults"
    /\ UNCHANGED <<relay3_close, notRelay3CloseVars>>

\* lines 48-54
FaultCols ==
    /\ pc = "faults"
    /\ LET cols == fault_cols(df.columns)
       IN  out' = out \o <<[line |-> "FAULT/ERROR STATES"]>>
                      \o [k \in DOMAIN cols |->
                            [line |-> "Fault", col |-> cols[k],
                             val |-> first_row[cols[k]]]]
    /\ pc' = "summary"
    /\ UNCHANGED <<relay3_close, notRelay3CloseVars>>

\* lines 56-62
Summary ==
    /\ pc = "summary"
    /\ LET title == <<[line |-> "SUMMARY OF ALL RELAY 3 'Close' ROWS"]>>
           time == column(relay3_close, s_Time)
           range == <<[line |-> "Time range",
                       min |-> CHOOSE m \in Range(time) : \A x \in Range(time) : m <= x,
                       max |-> CHOOSE m \in Range(time) : \A x \in Range(time) : m >= x],
                      [line |-> "System states when Relay 3 is Close"]>>
       IN  IF ~has_column(relay3_close, s_Time) THEN KeyError(title, s_Time)
           ELSE IF ~has_column(relay3_close, s_System_state)
           THEN KeyError(title \o range, s_System_state)
           ELSE /\ out' = out \o title \o range \o
                     <<[line |-> "System states",
                        counts |-> value_counts(column(relay3_close, s_System_state))]>>
                /\ pc' = "stats"
    /\ UNCHANGED <<relay3_close, notRelay3CloseVars>>

\* lines 64-67
CurrentStats ==
    /\ pc = "stats"
    /\ IF ~has_column(relay3_close, s_Current_A)
       THEN KeyError(<<[line |-> "Current(A) stats when Relay 3 is Close"]>>, s_Current_A)
       ELSE LET current == column(relay3_close, s_Current_A)
            IN  \E shown \in format_2f(series_mean(current)) :
                  /\ out' = out \o
                       <<[line |-> "Current(A) stats when Relay 3 is Close"],
                         [line |-> "Min", val |-> series_min(current)],
                         [line |-> "Max", val |-> series_max(current)],
                         [line |-> "Mean", val |-> shown]>>
                  /\ pc' = "other_relays"
    /\ UNCHANGED <<relay3_close, notRelay3CloseVars>>

\* lines 69-76
OtherRelays ==
    /\ pc = "other_relays"
    /\ LET cols == SelectSeq(relay_cols_relay3_close(df.columns),
                             LAMBDA col : col # s_Relay_3)
       IN  out' = out \o <<[line |-> "OTHER RELAY STATES WHEN RELAY 3 IS CLOSE"]>>
                      \o [k \in DOMAIN cols |->
                            [line |-> "OtherRelay", col |-> cols[k],
                             counts |-> value_counts(column(relay3_close, cols[k]))]]
    /\ pc' = "peak"
    /\ UNCHANGED <<relay3_close, notRelay3CloseVars>>

\* lines 78-90
PeakSheet ==
    /\ pc = "peak"
    /\ out' = Append(out, [line |-> "CHECKING PEAK DATA SHEET"])
    /\ pc' = "charging"
    /\ UNCHANGED <<relay3_close, notRelay3CloseVars>>

\* lines 92-100
ChargingSheet ==
    /\ pc = "charging"
    /\ out' = Append(out, [line |-> "CHECKING CHARGING SHEET"])
    /\ pc' = "done"
    /\ UNCHANGED <<relay3_close, notRelay3CloseVars>>

NextRelay3Close ==
    \/ ReadSheet \/ SearchRelay3 \/ FirstRow \/ ImportantCols \/ FaultCols
    \/ Summary \/ CurrentStats \/ OtherRelays \/ PeakSheet \/ ChargingSheet

SpecRelay3Close == InitRelay3Close /\ [][NextRelay3Close]_vars

(***************************************************************************)
(* Claims about analyze_relay3_close.py.                                   *)
(***************************************************************************)
Lines(kind) == {i \in DOMAIN out : out[i].line = kind}
LineOf(kind) == out[CHOOSE i \in DOMAIN out : out[i].line = kind]

\* The rows of relay3_close with a number in Current(A).
CurrentRows ==
    IF has_column(relay3_close, s_Current_A)
    THEN {i \in DOMAIN relay3_close.rows : ~relay3_close.rows[i][s_Current_A].nan}
    ELSE {}

RECURSIVE SumOfCurrent(_)
SumOfCurrent(rowset) ==
    IF rowset = {} THEN 0
    ELSE LET i == CHOOSE r \in rowset : TRUE
         IN  relay3_close.rows[i][s_Current_A].x + SumOfCurrent(rowset \ {i})

StatsWritten == Lines("Mean") # {} /\ CurrentRows # {}

C5_MissingColumnContained ==
    pc \in {"done", "aborted"} =>
        /\ Lines("CHECKING PEAK DATA SHEET") # {}
        /\ Lines("CHECKING CHARGING SHEET") # {}

\* C9: no min, max or mean is written for Current(A) when the filtered rows
\* hold no non-missing value in that column.
C9_EmptyColumnNoStats ==
    (Lines("Min") # {} \/ Lines("Max") # {} \/ Lines("Mean") # {}) => CurrentRows # {}

(***************************************************************************)
(* analyze_system_state.py, run twice on the same sheet.                   *)
(***************************************************************************)
important_keywords ==
    <<k_balanc, k_heat, k_cool, s_error, s_fault, k_alarm, k_status, k_charge,
      k_discharge>>

\* if len(unique_vals) <= 20
UniqueCap == 20

RECURSIVE unique(_)
\* Series.unique(): the distinct values in first-seen order.
unique(series) ==
    IF series = <<>> THEN <<>>
    ELSE LET before == unique(SubSeq(series, 1, Len(series) - 1))
             last == series[Len(series)]
         IN  IF last \in Range(before) THEN before ELSE Append(before, last)

\* lines 64-74, for one keyword: the lines written for it.
keyword_group(d, kw) ==
    LET cols == matching_cols(d.columns, kw)
        entry(col) ==
            LET unique_vals == unique(column(d, col))
            IN  <<[line |-> "-", col |-> ascii_safe(col)],
                  IF Len(unique_vals) <= UniqueCap
                  THEN [line |-> "Unique values", col |-> ascii_safe(col),
                        vals |-> unique_vals]
                  ELSE [line |-> "Has unique values", col |-> ascii_safe(col),
                        n |-> Len(unique_vals)]>>
        RECURSIVE entries(_)
        entries(cs) == IF cs = <<>> THEN <<>> ELSE entry(Head(cs)) \o entries(Tail(cs))
    IN  IF cols # <<>>
        THEN <<[line |-> "Columns containing", keyword |-> kw]>> \o entries(cols)
        ELSE <<>>

StateColumnNames ==
    {s_Relay3, s_Relay_3, n_Heating, n_Cool_pct, n_Charge_status, n_Fault_level,
     n_Discharge}

\* The cell of column n in row i of the sheet.
StateCell(n, i) ==
    CASE n = s_Relay3 -> IF i % 3 = 0 THEN s_CLOSED ELSE s_Open
      [] n = s_Relay_3 -> IF i % 2 = 0 THEN s_Close ELSE s_Open
      [] n = n_Heating -> i % 2
      [] n = n_Cool_pct -> i % 3
      [] n = n_Charge_status -> i % 20
      [] n = n_Fault_level -> i % 21
      [] OTHER -> i

StateSheets ==
    {[columns |-> cols,
      rows |-> [i \in 1..SheetRows |-> [n \in Range(cols) |-> StateCell(n, i)]]] :
        cols \in DistinctSeqs(StateColumnNames, MaxCols)}

Runs == {1, 2}

InitSystemState ==
    /\ df \in StateSheets
    /\ run = [r \in Runs |-> [pc |-> "read", k |-> 1, out |-> <<>>]]
    /\ keyword = Unused /\ sel = Unused /\ pred = Unused
    /\ filtered = Unused /\ refiltered = Unused
    /\ pc = Unused /\ out = Unused /\ relay3_close = Unused
    /\ files = Unused /\ idx = Unused /\ handles = Unused

notSystemStateVars ==
    <<df, keyword, sel, pred, filtered, refiltered, pc, out, relay3_close, files,
      idx, handles>>

Write(r, position, lines) ==
    run' = [run EXCEPT ![r].pc = position, ![r].out = @ \o lines]

\* lines 11-27
ReadState(r) ==
    /\ run[r].pc = "read"
    /\ Write(r, "relay_cols",
             <<[line |-> "SYSTEM STATE SHEET ANALYSIS"],
               [line |-> "Total rows", n |-> Len(df.rows)],
               [line |-> "Total columns", n |-> Len(df.columns)]>>
             \o [i \in DOMAIN df.columns |->
                   [line |-> "Column", i |-> i, col |-> ascii_safe(df.columns[i])]])
    /\ UNCHANGED notSystemStateVars

\* lines 29-38
RelayColumns(r) ==
    /\ run[r].pc = "relay_cols"
    /\ LET cols == relay_cols_system_state(df.columns)
       IN  Write(r, "relay3",
                 [i \in DOMAIN cols |->
                    [line |-> "Relay column", col |-> cols[i],
                     vals |-> unique(column(df, cols[i])),
                     counts |-> value_counts(column(df, cols[i]))]])
    /\ UNCHANGED notSystemStateVars

\* lines 40-56
Relay3Check(r) ==
    /\ run[r].pc = "relay3"
    /\ IF has_column(df, s_Relay3)
       THEN LET relay3_closed == filterRows(df, s_Relay3, s_CLOSED)
                cols == relay_cols_system_state(df.columns)
            IN  Write(r, "keywords",
                      <<[line |-> "Found", n |-> Len(relay3_closed.rows)]>>
                      \o IF Len(relay3_closed.rows) > 0
                         THEN [i \in DOMAIN cols |->
                                 [line |-> "Relay value", col |-> cols[i],
                                  val |-> relay3_closed.rows[1][cols[i]]]]
                         ELSE <<>>)
       ELSE Write(r, "keywords", <<[line |-> "Relay3 column not found!"]>>)
    /\ UNCHANGED notSystemStateVars

\* lines 63-74: one turn of the loop over important_keywords
KeywordGroup(r) ==
    /\ run[r].pc = "keywords"
    /\ run[r].k <= Len(important_keywords)
    /\ run' = [run EXCEPT ![r].k = @ + 1,
                          ![r].out = @ \o keyword_group(df, important_keywords[run[r].k])]
    /\ UNCHANGED notSystemStateVars

\* lines 76-104
OtherSheets(r) ==
    /\ run[r].pc = "keywords"
    /\ run[r].k > Len(important_keywords)
    /\ Write(r, "done",
             <<[line |-> "SAMPLE DATA"], [line |-> "CHECKING BALANCING STATE SHEET"],
               [line |-> "CHECKING ALARM STATE SHEET"]>>)
    /\ UNCHANGED notSystemStateVars

NextSystemState ==
    \E r \in Runs :
        \/ ReadState(r) \/ RelayColumns(r) \/ Relay3Check(r)
        \/ KeywordGroup(r) \/ OtherSheets(r)

SpecSystemState == InitSystemState /\ [][NextSystemState]_vars

(***************************************************************************)
(* Claims about the report of analyze_system_state.py.                     *)
(***************************************************************************)
KeywordIndex(kw) == CHOOSE i \in DOMAIN important_keywords : important_keywords[i] = kw
SafeColumnIndex(c) == CHOOSE i \in DOMAIN df.columns : ascii_safe(df.columns[i]) = c

Headers(o) == {i \in DOMAIN o : o[i].line = "Columns containing"}
Entries(o) == {i \in DOMAIN o : o[i].line = "-"}

\* The keyword sections of o are in the order of important_keywords, and the
\* columns of one section are in the order of df.columns.
InSuppliedOrder(o) ==
    /\ \A i, j \in Headers(o) :
          i < j => KeywordIndex(o[i].keyword) < KeywordIndex(o[j].keyword)
    /\ \A i, j \in Entries(o) :
          (i < j /\ ~\E h \in Headers(o) : i < h /\ h < j)
              => SafeColumnIndex(o[i].col) < SafeColumnIndex(o[j].col)

\* C3: two runs on the same sheet and keyword list write the same lines (at
\* the same position they have written the same output), the keyword sections
\* come in the order the keywords were supplied, and the columns of a section
\* come in the sheet's column order.
C3_ReportDeterministicOrdered ==
    /\ (run[1].pc = run[2].pc /\ run[1].k = run[2].k) => run[1].out = run[2].out
    /\ \A r \in Runs : InSuppliedOrder(run[r].out)

\* Both runs are done and the report holds two keyword sections, one of them
\* with two columns.
C3_Witness ==
    /\ \A r \in Runs : run[r].pc = "done"
    /\ Cardinality(Headers(run[1].out)) >= 2
    /\ \E i \in Entries(run[1].out) :
          i + 2 \in Entries(run[1].out)

\* The cells of the column written as c, and its distinct values.
DistinctOf(c) == unique(column(df, df.columns[SafeColumnIndex(c)]))

\* C8: a column with at most 20 distinct values is listed in full; one with
\* more is summarised by its count together with its first 20 distinct values.
C8_CappedListing ==
    \A r \in Runs : \A i \in DOMAIN run[r].out :
        LET l == run[r].out[i]
        IN  l.line \in {"Unique values", "Has unique values"} =>
              IF Len(DistinctOf(l.col)) <= UniqueCap
              THEN l.line = "Unique values" /\ l.vals = DistinctOf(l.col)
              ELSE /\ l.line = "Has unique values"
                   /\ l.n = Len(DistinctOf(l.col))
                   /\ "vals" \in DOMAIN l
                   /\ l.vals = SubSeq(DistinctOf(l.col), 1, UniqueCap)

(***************************************************************************)
(* analyze_bms_files.py: the batch run over the file list.                 *)
(***************************************************************************)
\* len(files)
NumFiles == 6

\* The sheets the loop body asks for, in the order it asks.
requested_sheets ==
    <<"System state 0x93", "Temperatures 0x09", "Peak data 0x9B", "Charging 0x99",
      "(Dis)charged energy 0x89", "Voltages 0x9A">>

\* What may lie behind a path: no readable workbook; a workbook with every
\* sheet; one with some sheets missing; one with a sheet that cannot be read.
Workbooks ==
    {[readable |-> FALSE, sheet_names |-> {}, unreadable_sheets |-> {}],
     [readable |-> TRUE, sheet_names |-> Range(requested_sheets),
      unreadable_sheets |-> {}],
     [readable |-> TRUE, sheet_names |-> {"Temperatures 0x09", "Device info. 0x92"},
      unreadable_sheets |-> {}],
     [readable |-> TRUE, sheet_names |-> {"System state 0x93", "Peak data 0x9B"},
      unreadable_sheets |-> {"Peak data 0x9B"}]}

At(position, k) == [at |-> position, k |-> k]

InitBatch ==
    /\ files \in [1..NumFiles -> Workbooks]
    /\ idx = 1
    /\ pc = At("banner", 0)
    /\ out = <<>>
    /\ handles = {<<"output_file", 0>>}
    /\ df = Unused /\ keyword = Unused /\ sel = Unused /\ pred = Unused
    /\ filtered = Unused /\ refiltered = Unused
    /\ relay3_close = Unused /\ run = Unused

notBatchVars == <<df, keyword, sel, pred, filtered, refiltered, relay3_close, run, files>>

\* output(text): one more line in the output file.
output(lines) == out' = out \o lines

\* lines 21-23
Banner ==
    /\ pc = At("banner", 0)
    /\ output(<<[line |-> "BMS FILE ANALYSIS", file |-> 0]>>)
    /\ pc' = At("for", 0)
    /\ UNCHANGED <<idx, handles, notBatchVars>>

\* lines 25-28
FileHeader ==
    /\ pc = At("for", 0)
    /\ idx <= NumFiles
    /\ output(<<[line |-> "FILE", file |-> idx]>>)
    /\ pc' = At("try", 0)
    /\ UNCHANGED <<idx, handles, notBatchVars>>

\* lines 30-35
OpenWorkbook ==
    /\ pc = At("try", 0)
    /\ IF files[idx].readable
       THEN /\ handles' = handles \cup {<<"xl_file", idx>>}
            /\ output(<<[line |-> "SHEET NAMES", file |-> idx,
                         names |-> files[idx].sheet_names]>>)
            /\ pc' = At("sheet", 1)
       ELSE /\ pc' = At("except", 0)
            /\ UNCHANGED <<out, handles>>
    /\ UNCHANGED <<idx, notBatchVars>>

\* The next file of the loop.
NextFile == idx' = idx + 1 /\ pc' = At("for", 0)

\* lines 37-127: one `if "<sheet>" in xl_file.sheet_names:` block
AnalyzeSheet ==
    /\ pc.at = "sheet"
    /\ LET name == requested_sheets[pc.k]
           after == IF pc.k < Len(requested_sheets)
                    THEN pc' = At("sheet", pc.k + 1) /\ UNCHANGED idx
                    ELSE NextFile
       IN  IF name \in files[idx].sheet_names
           THEN IF name \in files[idx].unreadable_sheets
                THEN /\ output(<<[line |-> "SHEET", file |-> idx, sheet |-> name]>>)
                     /\ pc' = At("except", 0)
                     /\ UNCHANGED idx
                ELSE /\ output(<<[line |-> "SHEET", file |-> idx, sheet |-> name],
                                 [line |-> "Column names", file |-> idx, sheet |-> name]>>)
                     /\ after
           ELSE /\ UNCHANGED out
                /\ after
    /\ UNCHANGED <<handles, notBatchVars>>

\* A handler that lets the exception go: the script ends.
except_reraises ==
    /\ pc = At("except", 0)
    /\ output(<<[line |-> "Traceback", file |-> idx]>>)
    /\ pc' = At("aborted", 0)
    /\ UNCHANGED <<idx, handles, notBatchVars>>

\* lines 129-132
except_Exception ==
    /\ pc = At("except", 0)
    /\ output(<<[line |-> "ERROR analyzing file", file |-> idx],
                [line |-> "Traceback", file |-> idx]>>)
    /\ NextFile
    /\ UNCHANGED <<handles, notBatchVars>>

\* lines 134-136
Complete ==
    /\ pc = At("for", 0)
    /\ idx > NumFiles
    /\ output(<<[line |-> "ANALYSIS COMPLETE", file |-> 0]>>)
    /\ pc' = At("close", 0)
    /\ UNCHANGED <<idx, handles, notBatchVars>>

\* lines 138-139
CloseOutput ==
    /\ pc = At("close", 0)
    /\ handles' = handles \ {<<"output_file", 0>>}
    /\ pc' = At("done", 0)
    /\ UNCHANGED <<idx, out, notBatchVars>>

NextBatch ==
    \/ Banner \/ FileHeader \/ OpenWorkbook \/ AnalyzeSheet \/ except_Exception
    \/ Complete \/ CloseOutput

\* The script is one sequential process: it takes its next step while it has one.
SpecBatch == InitBatch /\ [][NextBatch]_vars /\ WF_vars(NextBatch)

(***************************************************************************)
(* Claims about the batch run.                                             *)
(***************************************************************************)
FileHeaders == SelectSeq(out, LAMBDA l : l.line = "FILE")
Written(kind, i) == \E j \in DOMAIN out : out[j].line = kind /\ out[j].file = i

\* The FILE headers written so far are those of files 1..m, once each, in order.
HeadersInListOrder ==
    /\ Len(FileHeaders) <= NumFiles
    /\ \A j \in DOMAIN FileHeaders : FileHeaders[j].file = j

\* C6: whatever files fail to read, every file of the list is visited exactly
\* once in list order and the run ends by writing ANALYSIS COMPLETE.
C6_BatchContinues ==
    /\ [](HeadersInListOrder)
    /\ <>(/\ Written("ANALYSIS COMPLETE", 0)
          /\ Len(FileHeaders) = NumFiles)

\* The run is complete although the first file could not be opened and a sheet
\* of the second could not be read.
C6_Witness ==
    /\ pc = At("done", 0)
    /\ ~files[1].readable
    /\ files[2].unreadable_sheets # {}
    /\ files[3].readable
    /\ Written("ANALYSIS COMPLETE", 0)

\* File i has been left behind by the loop.
Passed(i) == i < idx

\* Sheet s of file i was asked for (no exception ended the file before it).
AskedFor(i, s) ==
    /\ files[i].readable
    /\ \A k \in DOMAIN requested_sheets :
          (requested_sheets[k] \in files[i].unreadable_sheets
             /\ requested_sheets[k] \in files[i].sheet_names)
              => \E m \in 1..k : requested_sheets[m] = s

\* C7: every failure leaves a line naming it before the run moves on: a
\* workbook or sheet that cannot be read, and a requested sheet that is absent.
C7_NoSilentFailure ==
    \A i \in 1..NumFiles :
        Passed(i) =>
            /\ ~files[i].readable => Written("ERROR analyzing file", i)
            /\ \A s \in Range(requested_sheets) :
                  (AskedFor(i, s) /\ s \notin files[i].sheet_names) =>
                      \E j \in DOMAIN out :
                          /\ out[j].file = i
                          /\ "sheet" \in DOMAIN out[j]
                          /\ out[j].sheet = s

(***************************************************************************)
(* analyze_bms_files.py: the file handles, with writes that may fail.      *)
(*                                                                         *)
(* output() writes to output_file and flushes; either may raise OSError    *)
(* (a full disk, a file taken away).  Outside the try block and inside the *)
(* except handler nothing catches it and the script ends.  No statement    *)
(* closes a workbook: a workbook handle is closed only when the runtime    *)
(* reclaims an ExcelFile object that xl_file no longer names.              *)
(***************************************************************************)
\* What may lie behind a path in the runs that follow the handles.
HandleWorkbooks ==
    {w \in Workbooks : "Peak data 0x9B" \notin w.sheet_names}

InitHandles ==
    /\ files \in [1..NumFiles -> HandleWorkbooks]
    /\ idx = 1
    /\ pc = At("banner", 0)
    /\ out = <<>>
    /\ handles = {<<"output_file", 0>>}
    /\ df = Unused /\ keyword = Unused /\ sel = Unused /\ pred = Unused
    /\ filtered = Unused /\ refiltered = Unused
    /\ relay3_close = Unused /\ run = Unused

\* An OSError nothing catches: the traceback goes to stderr, the script ends.
Uncaught ==
    /\ pc' = At("aborted", 0)
    /\ UNCHANGED <<idx, out, handles, notBatchVars>>

\* lines 21-23, 26-28, 134-136: output() raises outside the try block
OutputFailsOutsideTry ==
    /\ pc = At("banner", 0) \/ pc = At("for", 0)
    /\ Uncaught

\* lines 32-35: the workbook is open and output() raises; the handler is next
OutputFailsAfterOpen ==
    /\ pc = At("try", 0)
    /\ files[idx].readable
    /\ handles' = handles \cup {<<"xl_file", idx>>}
    /\ pc' = At("except", 0)
    /\ UNCHANGED <<idx, out, notBatchVars>>

\* lines 39-127: output() raises in the block of a sheet that is present
OutputFailsInSheet ==
    /\ pc.at = "sheet"
    /\ requested_sheets[pc.k] \in files[idx].sheet_names
    /\ pc' = At("except", 0)
    /\ UNCHANGED <<idx, out, handles, notBatchVars>>

\* lines 130-132: output() raises inside the except handler
OutputFailsInHandler ==
    /\ pc = At("except", 0)
    /\ Uncaught

\* The workbook xl_file names: the one opened last.
Referenced(h) ==
    \A g \in handles : g[1] = "xl_file" => g[2] <= h[2]

\* line 32: once xl_file is bound to the next workbook the runtime may
\* reclaim the ExcelFile it named before, and close its handle, at any time.
Reclaim ==
    /\ \E h \in handles :
          /\ h[1] = "xl_file"
          /\ ~Referenced(h)
          /\ handles' = handles \ {h}
    /\ UNCHANGED <<idx, out, pc, notBatchVars>>

NextHandles ==
    \/ Banner \/ FileHeader \/ OpenWorkbook \/ AnalyzeSheet \/ except_Exception
    \/ Complete \/ CloseOutput
    \/ OutputFailsOutsideTry \/ OutputFailsAfterOpen \/ OutputFailsInSheet
    \/ OutputFailsInHandler \/ Reclaim

SpecHandles == InitHandles /\ [][NextHandles]_vars

(***************************************************************************)
(* Claims about the file handles.                                          *)
(***************************************************************************)
\* C11: whenever the run has ended (normally, after a failed workbook read or
\* after a failed write of the report) no handle the script opened is open.
C11_HandlesReleased ==
    pc.at \in {"done", "aborted"} => handles = {}

====
